---- MODULE Spec2Model ----
(***************************************************************************)
(* Model of the Digital Twin language-server wiring in src/src/extension.ts *)
(* (activate): the one-time asynchronous load, the document life-cycle     *)
(* handlers with their debounce timer, and the hover / completion          *)
(* providers.                                                              *)
(*                                                                         *)
(* A file path is a sequence of its dot-separated segments, so that the    *)
(* regular expressions of the source are computed, not assumed.            *)
(* A timer callback closes over the TextDocument object its handler was    *)
(* given; the editor hands out either the same object or a new one when a  *)
(* path is opened again, and a callback whose object was replaced keeps    *)
(* reading the text that object held.                                      *)
(* Pending timers are a bag of what their callbacks do; the one the handle *)
(* variable refers to is marked `held`.                                    *)
(***************************************************************************)
EXTENDS Naturals, Integers, Sequences, FiniteSets, Bags, TLC

---------------------------------------------------------------------------
(* Bounds of the model *)

\* number of timers that may be pending at the same time
MaxTimers == 2
\* number of edits made in one session
MaxEdits == 2

---------------------------------------------------------------------------
(* Program constants *)

\* setTimeout(..., 0) in the open handler
OpenDelay == 0
\* setTimeout(..., 500) in the edit handler
EditDelay == 500

InterfaceDoc == <<"a", "interface", "json">>
CapabilityModelDoc == <<"b", "capabilitymodel", "json">>
OtherDoc == <<"c", "json">>

Docs == {InterfaceDoc, CapabilityModelDoc, OtherDoc}

\* the documents the user works on in one session
Workspaces == {{InterfaceDoc, CapabilityModelDoc}, {InterfaceDoc, OtherDoc}}

NoEditor == <<>>
NoDiag == [ctx |-> "none", ver |-> 0]
\* values of the handle variable: null, a Timeout object whose callback
\* already ran, and a Timeout object that is pending (the held timer)
NoTimer == "null"
FiredTimer == "fired"
PendingTimer == "pending"
\* a callback whose TextDocument object is still the editor's current one
Live == -1

---------------------------------------------------------------------------
(* Pure functions *)

\* the file name test accepting every .json path
IsMetaModelPathAnyJson(path) ==
    /\ Len(path) >= 2
    /\ path[Len(path)] = "json"

\* /\.(interface|capabilitymodel)\.json$/.test(document.uri.fsPath)
IsMetaModelPath(path) ==
    /\ Len(path) >= 3
    /\ path[Len(path)] = "json"
    /\ path[Len(path) - 1] \in {"interface", "capabilitymodel"}

\* every document taken for an Interface
getDocumentTypeInterface(path) == "Interface"

\* getDocumentType: /\.interface\.json$/ ? 'Interface' : 'CapabilityModel'
getDocumentType(path) ==
    IF /\ Len(path) >= 3
       /\ path[Len(path)] = "json"
       /\ path[Len(path) - 1] = "interface"
    THEN "Interface"
    ELSE "CapabilityModel"

---------------------------------------------------------------------------
VARIABLES
    workspace,   \* the documents of the session
    pc,          \* position of activate() in ActivateOrder
    loaded,      \* which of dtInterface, dtCapabilityModel, dtGraph are bound
    registered,  \* the handlers and providers of activate() are registered
    isOpen,      \* the editor's open documents
    version,     \* text version of the editor's current object of each path
    activeEditor,\* vscode.window.activeTextEditor's document, or NoEditor
    diag,        \* dtDiagnostic's diagnostic set per document
    timers,      \* timers scheduled by setTimeout and not yet fired/cleared
    waitingForUpdatingDiagnostic, \* the handle variable of activate()
    query,       \* the ontology tables and the cursor the providers are asked at
    lastStep     \* the calls made by the last handler that ran, and its result

vars == <<workspace, pc, loaded, registered, isOpen, version, activeEditor,
          diag, timers, waitingForUpdatingDiagnostic, query, lastStep>>

docVars == <<isOpen, version, activeEditor>>
timerVars == <<timers, waitingForUpdatingDiagnostic>>
activateVars == <<workspace, pc, loaded, registered, query>>

\* what a provider returned: nothing asked, null, a list of literal values
\* or a list of keys; ctx is the DigitalTwinMetaModelContext it resolved in
Result(kind, ctx, values, keys) ==
    [kind |-> kind, ctx |-> ctx, values |-> values, keys |-> keys]

NoResult == Result("none", "none", <<>>, <<>>)

Step(op, doc, updates, deletes) ==
    [op |-> op, doc |-> doc, updates |-> updates, deletes |-> deletes,
     result |-> NoResult]

\* no handler of the extension ran in the step
NoHandler == Step("none", NoEditor, {}, {})

\* the call dtDiagnostic.update(ctx, document): the context is chosen by
\* getDocumentType, the text is the text of the object passed
UpdateCall(path, text) ==
    [doc |-> path, ctx |-> getDocumentType(path), ver |-> text]

\* dtDiagnostic.update: replaces the document's diagnostic set
DiagnosticUpdate(dg, call) ==
    [dg EXCEPT ![call.doc] = [ctx |-> call.ctx, ver |-> call.ver]]

\* dtDiagnostic.delete: clears the document's diagnostic set
DiagnosticDelete(dg, path) == [dg EXCEPT ![path] = NoDiag]

\* the sum of the copies bag b holds of the elements of set ts
RECURSIVE Copies(_, _)
Copies(b, ts) ==
    IF ts = {} THEN 0
    ELSE LET t == CHOOSE x \in ts : TRUE
         IN b[t] + Copies(b, ts \ {t})

\* the bag of F(t) for the timers t of bag b
MapTimers(b, F(_)) ==
    [u \in {F(t) : t \in DOMAIN b} |->
        Copies(b, {t \in DOMAIN b : F(t) = u})]

\* the handle variable is overwritten: no pending timer is referred to
Unhold(ts) == MapTimers(ts, LAMBDA t : [t EXCEPT !.held = FALSE])

\* clearTimeout(handle): a handle of a timer that already fired clears nothing
ClearTimeout(ts, handle) ==
    IF handle = PendingTimer
    THEN [t \in {x \in DOMAIN ts : ~x.held} |-> ts[t]]
    ELSE ts

\* the number of edits made so far to the documents of set ds
RECURSIVE Edits(_)
Edits(ds) ==
    IF ds = {} THEN 0
    ELSE LET d == CHOOSE x \in ds : TRUE
         IN version[d] + Edits(ds \ {d})

\* the Timeout object setTimeout(callback, delay) returns, its callback
\* closing over the current object of path; the handle is assigned to it
NewTimer(path, kind, delay) ==
    [doc |-> path, kind |-> kind, rem |-> delay, text |-> Live, held |-> TRUE]

\* the pending timers after `handle = setTimeout(...)`
SetTimeout(ts, timer) == Unhold(ts) (+) SetToBag({timer})

\* the text the callback of timer t reads from the object it closed over
TimerText(t) == IF t.text = Live THEN version[t.doc] ELSE t.text

\* the editor replaces the TextDocument object of path: the callbacks that
\* closed over the old object keep reading the old object's last text
Orphan(ts, path) ==
    MapTimers(ts, LAMBDA t : IF t.doc = path /\ t.text = Live
                             THEN [t EXCEPT !.text = version[path]] ELSE t)

---------------------------------------------------------------------------
(* the ontology resolver and the cursor context, as the providers see them *)

\* values of jsonInfo.type: undefined, a string, or an array of strings
Undefined == [tag |-> "undefined", str |-> "", arr |-> <<>>]
Str(s) == [tag |-> "string", str |-> s, arr |-> <<>>]
Arr(a) == [tag |-> "array", str |-> "", arr |-> a]

\* a falsy id, comment or range type (null, undefined or '')
NoId == ""
NoType == ""

\* an entry of a key list: {label, required, type?}
Key(label, required, type) ==
    [label |-> label, required |-> required, type |-> type]

\* dtParser.getIdFromShortName(dtContext, shortName): total, NoId on a miss
getIdFromShortName(q, shortName) ==
    IF shortName = "contents" THEN q.idOf ELSE NoId

\* dtParser.getTypesFromId(dtContext, id)
getTypesFromId(q, id) == IF id = NoId THEN <<>> ELSE q.typesOf

\* dtParser.getTypedPropertiesFromType(dtContext, type)
getTypedPropertiesFromType(q, type) ==
    IF type \in DOMAIN q.props THEN q.props[type] ELSE <<>>

\* dtParser.getStringValuesFromShortName(dtContext, key)
getStringValuesFromShortName(q, key) ==
    IF key = "name" THEN q.strings ELSE <<>>

\* dtParser.getCommentFromId(id)
getCommentFromId(q, id) == q.comment

---------------------------------------------------------------------------
(* provideHover *)

provideHover(q) ==
    LET id == q.hoverId
        hoverText ==
            IF id = NoId THEN ""
            ELSE IF id = "@id"
            THEN "An identifier for Digital Twin capability model or interface."
            ELSE IF id = "@type"
            THEN "The type of Digital Twin meta model object."
            ELSE IF id = "@context"
            THEN "The context for Digital Twin capability model or interface."
            ELSE getCommentFromId(q, id)
    IN IF hoverText # ""
       THEN Result("hover", "Interface", <<hoverText>>, <<>>)
       ELSE Result("null", "Interface", <<>>, <<>>)

---------------------------------------------------------------------------
(* provideCompletionItems *)

\* DigitalTwinMetaModelJsonParser.getDigitalTwinContextTypeAtPosition(
\*     document, position, documentType): the kind of the document
getDigitalTwinContextTypeAtPosition(q, documentType) == documentType

\* contextType === 'Interface' ? dtInterface : dtCapabilityModel
dtContextOf(contextType) ==
    IF contextType = "Interface" THEN "Interface" ELSE "CapabilityModel"

\* the Interface literal offered whatever the context type
ContextUriFixed(contextType) ==
    "http://azureiot.com/v0/contexts/Interface.json"

\* the literal offered as the value of @context
ContextUri(contextType) ==
    IF contextType = "Interface"
    THEN "http://azureiot.com/v0/contexts/Interface.json"
    ELSE "http://azureiot.com/v0/contexts/CapabilityModel.json"

\* the value branch: the list handed to getCompletionItemsFromArray
ValueCompletion(q, contextType) ==
    LET ctx == dtContextOf(contextType)
    IN IF q.key = "@context"
       THEN Result("values", ctx, <<ContextUri(contextType)>>, <<>>)
       ELSE IF q.key = "@type"
       THEN IF q.lastKey # ""
            THEN LET id == getIdFromShortName(q, q.lastKey)
                 IN IF id = NoId
                    THEN Result("null", ctx, <<>>, <<>>)
                    ELSE Result("values", ctx, getTypesFromId(q, id), <<>>)
            ELSE Result("values", ctx, <<contextType>>, <<>>)
       ELSE Result("values", ctx,
                   getStringValuesFromShortName(q, q.key), <<>>)

\* !jsonInfo.type
IsFalsy(type) ==
    \/ type.tag = "undefined"
    \/ type.tag = "string" /\ type.str = ""

\* the inference taking any single declared type, a root kind too
InferredTypeAnySingle(q) ==
    IF ~IsFalsy(q.type) THEN q.type
    ELSE LET id == getIdFromShortName(q, q.lastKey)
             values == getTypesFromId(q, id)
         IN IF id # NoId /\ Len(values) = 1
            THEN Str(values[1])
            ELSE q.type

\* jsonInfo.type after the inference from the parent key
InferredType(q) ==
    IF ~IsFalsy(q.type) THEN q.type
    ELSE LET id == getIdFromShortName(q, q.lastKey)
             values == getTypesFromId(q, id)
         IN IF /\ id # NoId
               /\ Len(values) = 1
               /\ values[1] # "Interface"
               /\ values[1] # "CapabilityModel"
            THEN Str(values[1])
            ELSE q.type

\* typeof type === 'string' && type !== '' ||
\* Array.isArray(type) && type.length > 0
HasType(type) ==
    \/ type.tag = "string" /\ type.str # ""
    \/ type.tag = "array" /\ Len(type.arr) > 0

\* type === 'Interface' || type === 'CapabilityModel'
IsRootKind(type) ==
    type.tag = "string" /\ type.str \in {"Interface", "CapabilityModel"}

\* jsonInfo.properties.indexOf(label) === -1
NotPresent(properties, label) == label \notin properties

\* keyList.concat(getTypedPropertiesFromType(...)) over the array's types
RECURSIVE ConcatProperties(_, _)
ConcatProperties(q, types) ==
    IF types = <<>> THEN <<>>
    ELSE getTypedPropertiesFromType(q, Head(types))
         \o ConcatProperties(q, Tail(types))

\* index of the entry of label in a key list, 0 when there is none
IndexOfLabel(keys, label) ==
    IF \E i \in 1..Len(keys) : keys[i].label = label
    THEN CHOOSE i \in 1..Len(keys) : keys[i].label = label
    ELSE 0

\* completionObject[label] = {required: old && old.required || required,
\*                            type: old ? old.type : type}
\* and Object.keys(completionObject): one entry per label, insertion order
RECURSIVE MergeKeys(_, _)
MergeKeys(merged, keyList) ==
    IF keyList = <<>> THEN merged
    ELSE LET k == Head(keyList)
             i == IndexOfLabel(merged, k.label)
         IN IF i = 0
            THEN MergeKeys(Append(merged, k), Tail(keyList))
            ELSE MergeKeys(
                   [merged EXCEPT ![i] =
                      Key(k.label, merged[i].required \/ k.required,
                          merged[i].type)],
                   Tail(keyList))

\* keyList with no @type entry for an object of no type
KeyListNoBootstrap(q, type) ==
    IF HasType(type)
    THEN IF type.tag = "array"
         THEN MergeKeys(<<>>, ConcatProperties(q, type.arr))
         ELSE getTypedPropertiesFromType(q, type.str)
    ELSE <<>>

\* keyList before the sibling filter
KeyList(q, type) ==
    IF HasType(type)
    THEN IF type.tag = "array"
         THEN MergeKeys(<<>>, ConcatProperties(q, type.arr))
         ELSE getTypedPropertiesFromType(q, type.str)
    ELSE <<Key("@type", TRUE, NoType)>>

\* the key list handed on with no sibling filter applied
FilterSiblingsDropped(keyList, properties) == keyList

\* the keys of keyList that pass the sibling filter
FilterSiblings(keyList, properties) ==
    SelectSeq(keyList, LAMBDA k : NotPresent(properties, k.label))

\* the key branch: completionKeyList as handed to getCompletionItemsFromArray
CompletionKeyList(q) ==
    LET type == InferredType(q)
        context ==
            IF /\ HasType(type)
               /\ IsRootKind(type)
               /\ NotPresent(q.properties, "@context")
            THEN <<Key("@context", TRUE, NoType)>>
            ELSE <<>>
        id ==
            IF IsRootKind(type) /\ NotPresent(q.properties, "@id")
            THEN <<Key("@id", TRUE, "string")>>
            ELSE <<>>
    IN context \o FilterSiblings(KeyList(q, type), q.properties) \o id

provideCompletionItems(q, path) ==
    LET documentType == getDocumentType(path)
        contextType == getDigitalTwinContextTypeAtPosition(q, documentType)
    IN IF ~q.hasJsonInfo
       THEN Result("null", dtContextOf(contextType), <<>>, <<>>)
       ELSE IF q.isValue
       THEN ValueCompletion(q, contextType)
       ELSE Result("keys", dtContextOf(contextType), <<>>,
                   CompletionKeyList(q))

\* the document selector of both providers:
\* pattern '**/*.{interface,capabilitymodel}.json'
MatchesSelector(path) ==
    /\ Len(path) >= 3
    /\ path[Len(path)] = "json"
    /\ path[Len(path) - 1] \in {"interface", "capabilitymodel"}

---------------------------------------------------------------------------
(* the queries put to the providers *)

PropLists ==
    { <<>>,
      <<Key("name", TRUE, "string"), Key("schema", FALSE, NoType)>>,
      <<Key("schema", TRUE, "Schema"), Key("@id", FALSE, "string"),
        Key("@context", FALSE, NoType), Key("name", FALSE, NoType)>> }

TypeNames == {"Interface", "CapabilityModel", "Telemetry", "Property"}

TypeLists ==
    { <<>>, <<"Telemetry">>, <<"Interface">>, <<"Telemetry", "Property">> }

JsonTypes ==
    { Undefined, Str(""), Str("Interface"), Str("CapabilityModel"),
      Str("Telemetry"), Arr(<<>>), Arr(<<"Interface">>),
      Arr(<<"Telemetry", "Property">>) }

PropertySets ==
    (SUBSET {"@context", "@id"})
    \cup { {"name"}, {"@type"}, {"@type", "@context", "@id", "name"} }

\* the query of the sessions that exercise the document life cycle
MainQuery ==
    [props |-> [t \in TypeNames |-> <<Key("name", TRUE, "string")>>],
     idOf |-> NoId, typesOf |-> <<>>, strings |-> <<>>, comment |-> "",
     hasJsonInfo |-> TRUE, isValue |-> FALSE, key |-> "",
     lastKey |-> "", type |-> Str("Interface"), properties |-> {"@type"},
     hoverId |-> "@type"]

HoverQueries ==
    { [MainQuery EXCEPT !.hoverId = id, !.comment = c] :
        id \in {NoId, "@id", "@type", "@context", "@value", "Telemetry"},
        c \in {"", "A telemetry value."} }

IdTables == {<<NoId, <<>> >>} \cup {<<"TelemetryId", ts>> : ts \in TypeLists}

ValueQueries ==
    { [MainQuery EXCEPT !.isValue = TRUE, !.key = k, !.lastKey = lk,
                        !.idOf = it[1],
                        !.typesOf = it[2], !.strings = sv] :
        k \in {"@context", "@type", "name"}, lk \in {"", "contents"},
        it \in IdTables,
        sv \in {<<>>, <<"v1", "v2">>} }

\* the type names whose property lists a key query at type ty can read
TypesRead(ty) ==
    IF ty.tag = "array" THEN {ty.arr[i] : i \in 1..Len(ty.arr)}
    ELSE IF IsFalsy(ty) THEN {"Telemetry"}
    ELSE {ty.str}

PropsTables(ty) ==
    { [t \in TypeNames |-> IF t \in TypesRead(ty) THEN f[t] ELSE <<>>] :
        f \in [TypesRead(ty) -> PropLists] }

\* the parent key and the id table matter only when the type is inferred
LastKeysFor(ty) == IF IsFalsy(ty) THEN {"", "contents"} ELSE {""}
IdTablesFor(ty) == IF IsFalsy(ty) THEN IdTables ELSE {<<NoId, <<>> >>}

KeyQueries ==
    UNION { { [MainQuery EXCEPT !.props = pr, !.type = ty, !.properties = ps,
                                !.lastKey = lk, !.idOf = it[1],
                                !.typesOf = it[2]] :
                pr \in PropsTables(ty), ps \in PropertySets,
                lk \in LastKeysFor(ty), it \in IdTablesFor(ty) } :
            ty \in JsonTypes }

Queries ==
    {[MainQuery EXCEPT !.hasJsonInfo = FALSE]}
    \cup HoverQueries \cup ValueQueries \cup KeyQueries

---------------------------------------------------------------------------
(* activate(): the awaits in program order, then the synchronous rest *)

\* the handlers registered before the graph is awaited
ActivateOrderEarly == <<"Interface", "CapabilityModel", "register", "Graph">>

ActivateOrder == <<"Interface", "CapabilityModel", "Graph", "register">>

AllLoads == {"Interface", "CapabilityModel", "Graph"}

Init ==
    /\ workspace \in Workspaces
    /\ pc = 1
    /\ loaded = {}
    /\ registered = FALSE
    /\ isOpen = [d \in Docs |-> FALSE]
    /\ version = [d \in Docs |-> 0]
    /\ activeEditor = NoEditor
    /\ diag = [d \in Docs |-> NoDiag]
    /\ timers = EmptyBag
    /\ waitingForUpdatingDiagnostic = NoTimer
    /\ query = MainQuery
    /\ lastStep = NoHandler

\* await dtContext.getInterface() / getCapabilityModel() / getGraph() resolves
ActivateLoad ==
    /\ pc <= Len(ActivateOrder)
    /\ ActivateOrder[pc] \in AllLoads
    /\ loaded' = loaded \cup {ActivateOrder[pc]}
    /\ pc' = pc + 1
    /\ lastStep' = NoHandler
    /\ UNCHANGED <<workspace, registered, query, docVars, diag, timerVars>>

\* one of the awaited loads rejects: activate() throws, nothing is registered
ActivateLoadFails ==
    /\ pc <= Len(ActivateOrder)
    /\ ActivateOrder[pc] \in AllLoads
    /\ pc' = Len(ActivateOrder) + 1
    /\ lastStep' = NoHandler
    /\ UNCHANGED <<workspace, loaded, registered, query, docVars, diag,
                   timerVars>>

\* the synchronous rest of activate(): validate the active editor's
\* document, then register the four event handlers and the two providers
ActivateRegister ==
    /\ pc <= Len(ActivateOrder)
    /\ ActivateOrder[pc] = "register"
    /\ pc' = pc + 1
    /\ registered' = TRUE
    /\ IF activeEditor # NoEditor /\ IsMetaModelPath(activeEditor)
       THEN LET call == UpdateCall(activeEditor, version[activeEditor])
            IN /\ diag' = DiagnosticUpdate(diag, call)
               /\ lastStep' = Step("activate", activeEditor, {call}, {})
       ELSE /\ diag' = diag
            /\ lastStep' = Step("activate", NoEditor, {}, {})
    /\ UNCHANGED <<workspace, loaded, query, docVars, timerVars>>

---------------------------------------------------------------------------
(* document life-cycle events and their handlers *)

\* vscode.workspace.onDidOpenTextDocument: the editor opens path d, handing
\* out a new TextDocument object (fresh) or the one it handed out before
OpenTextDocument(d, fresh) ==
    /\ d \in workspace
    /\ ~isOpen[d]
    /\ isOpen' = [isOpen EXCEPT ![d] = TRUE]
    /\ LET ts == IF fresh THEN Orphan(timers, d) ELSE timers
       IN IF registered /\ IsMetaModelPath(d)
          THEN /\ BagCardinality(ts) < MaxTimers
               /\ timers' = SetTimeout(ts, NewTimer(d, "open", OpenDelay))
               /\ waitingForUpdatingDiagnostic' = PendingTimer
          ELSE /\ timers' = ts
               /\ UNCHANGED waitingForUpdatingDiagnostic
    /\ lastStep' = IF registered THEN Step("open", d, {}, {}) ELSE NoHandler
    /\ UNCHANGED <<activateVars, version, activeEditor, diag>>

\* an edit of open document d reaches the onDidChangeTextDocument handler:
\* the pending timer the handle names is cleared, a new one is scheduled
EditHandler(d) ==
    /\ d \in workspace
    /\ isOpen[d]
    /\ Edits(Docs) < MaxEdits
    /\ version' = [version EXCEPT ![d] = @ + 1]
    /\ IF registered /\ IsMetaModelPath(d)
       THEN LET ts == IF waitingForUpdatingDiagnostic # NoTimer
                      THEN ClearTimeout(timers, waitingForUpdatingDiagnostic)
                      ELSE timers
            IN /\ BagCardinality(ts) < MaxTimers
               /\ timers' = SetTimeout(ts, NewTimer(d, "edit", EditDelay))
               /\ waitingForUpdatingDiagnostic' = PendingTimer
       ELSE UNCHANGED timerVars
    /\ lastStep' = IF registered THEN Step("edit", d, {}, {}) ELSE NoHandler
    /\ UNCHANGED <<workspace, pc, loaded, registered, isOpen, activeEditor,
                   diag>>

\* vscode.workspace.onDidChangeTextDocument: an edit away from the cursor
ChangeTextDocument(d) ==
    /\ EditHandler(d)
    /\ UNCHANGED query

\* the active-editor handler without its file name test
SwitchValidatesAny(e) == e # NoEditor

\* does the active-editor handler validate the document of editor e
SwitchValidates(e) == e # NoEditor /\ IsMetaModelPath(e)

\* vscode.window.onDidChangeActiveTextEditor: the active editor becomes e
ChangeActiveTextEditor(e) ==
    /\ e # activeEditor
    /\ e # NoEditor => e \in workspace /\ isOpen[e]
    /\ activeEditor' = e
    /\ IF registered /\ SwitchValidates(e)
       THEN LET call == UpdateCall(e, version[e])
            IN /\ diag' = DiagnosticUpdate(diag, call)
               /\ lastStep' = Step("switch", e, {call}, {})
       ELSE /\ diag' = diag
            /\ lastStep' = IF registered THEN Step("switch", e, {}, {})
                           ELSE NoHandler
    /\ UNCHANGED <<activateVars, isOpen, version, timerVars>>

\* vscode.workspace.onDidCloseTextDocument: the editor disposes document d
CloseTextDocument(d) ==
    /\ d \in workspace
    /\ isOpen[d]
    /\ activeEditor # d
    /\ isOpen' = [isOpen EXCEPT ![d] = FALSE]
    /\ IF registered /\ IsMetaModelPath(d)
       THEN /\ diag' = DiagnosticDelete(diag, d)
            /\ lastStep' = Step("close", d, {}, {d})
       ELSE /\ diag' = diag
            /\ lastStep' = IF registered THEN Step("close", d, {}, {})
                           ELSE NoHandler
    /\ UNCHANGED <<activateVars, version, activeEditor, timerVars>>

---------------------------------------------------------------------------
(* timers *)

\* the callback of timer t runs: it validates the object it closed over;
\* only the edit handler's callback resets the handle variable
FireTimer(t) ==
    /\ BagIn(t, timers)
    /\ t.rem = 0
    /\ LET rest == timers (-) SetToBag({t})
           call == UpdateCall(t.doc, TimerText(t))
       IN /\ diag' = DiagnosticUpdate(diag, call)
          /\ lastStep' = Step("timer", t.doc, {call}, {})
          /\ IF t.kind = "edit"
             THEN /\ waitingForUpdatingDiagnostic' = NoTimer
                  /\ timers' = Unhold(rest)
             ELSE /\ waitingForUpdatingDiagnostic' =
                       IF t.held THEN FiredTimer
                       ELSE waitingForUpdatingDiagnostic
                  /\ timers' = rest
    /\ UNCHANGED <<activateVars, docVars>>

\* time passes until the earliest pending timer is due
Tick ==
    /\ timers # EmptyBag
    /\ \A t \in BagToSet(timers) : t.rem > 0
    /\ LET wait == CHOOSE w \in {t.rem : t \in BagToSet(timers)} :
                       \A t \in BagToSet(timers) : w <= t.rem
       IN timers' = MapTimers(timers, LAMBDA t : [t EXCEPT !.rem = @ - wait])
    /\ lastStep' = NoHandler
    /\ UNCHANGED <<activateVars, docVars, diag, waitingForUpdatingDiagnostic>>

---------------------------------------------------------------------------
(* the providers *)

\* a session in which activate() has run to its end and the two meta model
\* documents, opened before, are asked about
QueryInit ==
    /\ workspace = {InterfaceDoc, CapabilityModelDoc}
    /\ pc = Len(ActivateOrder) + 1
    /\ loaded = AllLoads
    /\ registered = TRUE
    /\ isOpen = [d \in Docs |-> d \in workspace]
    /\ version = [d \in Docs |-> 0]
    /\ activeEditor \in workspace
    /\ diag = [d \in Docs |-> NoDiag]
    /\ timers = EmptyBag
    /\ waitingForUpdatingDiagnostic = NoTimer
    /\ query \in Queries
    /\ lastStep = NoHandler

\* the editor asks the hover provider about the document d of its active
\* editor
ProvideHover(d) ==
    /\ registered
    /\ d = activeEditor
    /\ MatchesSelector(d)
    /\ lastStep' = [Step("hover", d, {}, {}) EXCEPT
                      !.result = provideHover(query)]
    /\ UNCHANGED <<activateVars, docVars, diag, timerVars>>

\* the editor asks the completion provider about the document d of its
\* active editor
ProvideCompletionItems(d) ==
    /\ registered
    /\ d = activeEditor
    /\ MatchesSelector(d)
    /\ lastStep' = [Step("completion", d, {}, {}) EXCEPT
                      !.result = provideCompletionItems(query, d)]
    /\ UNCHANGED <<activateVars, docVars, diag, timerVars>>

\* the user accepts candidate i of the key list just offered for document d:
\* the key becomes a sibling of the cursor, and the document is edited
InsertSuggestedKey(d, i) ==
    /\ lastStep.op = "completion"
    /\ lastStep.doc = d
    /\ lastStep.result.kind = "keys"
    /\ i \in 1..Len(lastStep.result.keys)
    /\ query' = [query EXCEPT
                   !.properties = @ \cup {lastStep.result.keys[i].label}]
    /\ EditHandler(d)

---------------------------------------------------------------------------
Next ==
    \/ ActivateLoad
    \/ ActivateLoadFails
    \/ ActivateRegister
    \/ \E d \in Docs, fresh \in BOOLEAN : OpenTextDocument(d, fresh)
    \/ \E d \in Docs : ChangeTextDocument(d)
    \/ \E e \in Docs \cup {NoEditor} : ChangeActiveTextEditor(e)
    \/ \E d \in Docs : CloseTextDocument(d)
    \/ \E t \in BagToSet(timers) : FireTimer(t)
    \/ Tick
    \/ \E d \in Docs : ProvideHover(d)
    \/ \E d \in Docs : ProvideCompletionItems(d)

Spec == Init /\ [][Next]_vars

\* the providers asked over every query, the user accepting candidates
QueryNext ==
    \/ \E d \in Docs : ProvideHover(d)
    \/ \E d \in Docs : ProvideCompletionItems(d)
    \/ \E d \in Docs, i \in 1..4 : InsertSuggestedKey(d, i)

QuerySpec == QueryInit /\ [][QueryNext]_vars

---------------------------------------------------------------------------
(* the event loop: every due callback is eventually run, and time passes *)

TimerTexts == {Live} \cup 0..MaxEdits

DueTimers ==
    [doc : Docs, kind : {"open", "edit"}, rem : {0}, text : TimerTexts,
     held : BOOLEAN]

FairSpec ==
    /\ Spec
    /\ WF_vars(Tick)
    /\ \A t \in DueTimers : WF_vars(FireTimer(t))

---------------------------------------------------------------------------
(* Properties *)

MetaModelDocs == {InterfaceDoc, CapabilityModelDoc}

\* the number of pending timers whose callback validates document d
PendingCount(ts, d) == Copies(ts, {t \in DOMAIN ts : t.doc = d})

\* the pending timers of document d, whichever of them the handle refers to
PendingOf(ts, d) ==
    Unhold([t \in {x \in DOMAIN ts : x.doc = d} |-> ts[t]])

\* the handler of a document event ran in the last step
IsDocEvent(step) == step.op \in {"open", "edit", "switch", "close"}

\* the last step validated document d
Validated(step, d) == \E u \in step.updates : u.doc = d

\* C1: in every reachable state every recognized document has at most one
\* pending revalidation timer
C1_AtMostOnePendingPerDocument ==
    \A d \in MetaModelDocs : PendingCount(timers, d) <= 1

\* C2: a closed document has an empty diagnostic set and is not validated
\* until it is opened again, whatever timer was pending when it closed
C2_NoValidationAfterClose ==
    \A d \in MetaModelDocs :
        ~isOpen[d] => diag[d] = NoDiag /\ ~Validated(lastStep, d)

\* C3: under fair timer firing, every edit of a recognized document that
\* stays open is eventually followed by a validation of that document
C3_EditLeadsToValidation ==
    \A d \in MetaModelDocs :
        [](lastStep.op = "edit" /\ lastStep.doc = d
             => <>(Validated(lastStep, d) \/ ~isOpen[d]))

\* C4: an open, edit or close event of document a changes neither the
\* pending timers nor the diagnostic set of another document b
C4_DocumentsIndependent ==
    [][\A a \in Docs, b \in Docs :
         /\ lastStep'.op \in {"open", "edit", "close"}
         /\ lastStep'.doc = a
         /\ b # a
         => /\ PendingOf(timers', b) = PendingOf(timers, b)
            /\ diag'[b] = diag[b]]_vars

\* C5: the validation an open event triggers is performed before any later
\* document event is handled: no document event is handled while the
\* validation of an opened document is still outstanding
C5_OpenValidatesImmediately ==
    [][IsDocEvent(lastStep') =>
         \A t \in DOMAIN timers : t.kind # "open"]_vars

\* C6: a validation of a document never replaces a diagnostic set by one
\* computed from an older text version of that document
C6_ValidationsInEditOrder ==
    [][\A u \in lastStep'.updates :
         diag[u.doc] # NoDiag => u.ver >= diag[u.doc].ver]_vars

\* C7: handlers and providers are registered, and any of them has run, only
\* when the Interface context, the CapabilityModel context and the graph
\* have all been loaded
C7_LoadedBeforeServing ==
    (registered \/ lastStep.op # "none") => loaded = AllLoads

C7_Witness ==
    /\ lastStep.op = "completion"
    /\ lastStep.result.kind = "keys"
    /\ \E d \in MetaModelDocs : diag[d] # NoDiag

\* C8: an active-editor switch validates the newly active document, in the
\* same step, exactly when there is an editor and its document is an
\* .interface.json or .capabilitymodel.json file; it validates nothing else
C8_SwitchValidatesRecognized ==
    lastStep.op = "switch" =>
        /\ Validated(lastStep, lastStep.doc) <=> lastStep.doc \in MetaModelDocs
        /\ \A u \in lastStep.updates :
             u.doc = lastStep.doc /\ u.ver = version[u.doc]

C8_Witness ==
    /\ lastStep.op = "switch"
    /\ lastStep.doc = CapabilityModelDoc
    /\ Validated(lastStep, CapabilityModelDoc)

\* the labels of a key list
Labels(keys) == {keys[i].label : i \in 1..Len(keys)}

\* C9: completion at a key position never offers a key the enclosing object
\* already has, also right after a suggested key was inserted
C9_NoPresentKeyOffered ==
    lastStep.result.kind = "keys" =>
        Labels(lastStep.result.keys) \cap query.properties = {}

C9_Witness ==
    /\ lastStep.result.kind = "keys"
    /\ Len(lastStep.result.keys) > 0
    /\ version[lastStep.doc] > 0
    /\ "name" \in query.properties
    /\ query.type.tag = "array"

\* the type is a root document kind, held as a string or in an array
HoldsRootKind(type) ==
    \/ type.tag = "string" /\ type.str \in {"Interface", "CapabilityModel"}
    \/ /\ type.tag = "array"
       /\ \E i \in 1..Len(type.arr) :
            type.arr[i] \in {"Interface", "CapabilityModel"}

\* key list keys holds an entry of label flagged required
OffersRequired(keys, label) ==
    \E i \in 1..Len(keys) : keys[i].label = label /\ keys[i].required

\* C10: at a key position of an object whose type is a root document kind,
\* @context is offered as required iff it is no sibling yet, and so is @id
C10_RootKeysInjected ==
    lastStep.result.kind = "keys" /\ HoldsRootKind(query.type) =>
        /\ OffersRequired(lastStep.result.keys, "@context")
             <=> "@context" \notin query.properties
        /\ OffersRequired(lastStep.result.keys, "@id")
             <=> "@id" \notin query.properties

\* the result of the last step is a key list computed for an array of types
IsArrayKeys ==
    /\ lastStep.result.kind = "keys"
    /\ query.type.tag = "array"
    /\ Len(query.type.arr) > 0

\* the property entries of label that the listed types declare, in type order
Occurrences(q, label) ==
    SelectSeq(ConcatProperties(q, q.type.arr), LAMBDA k : k.label = label)

\* some occurrence is flagged required
AnyRequired(occ) == \E i \in 1..Len(occ) : occ[i].required

\* the range type of the first occurrence that has one
FirstRangeType(occ) ==
    LET typed == SelectSeq(occ, LAMBDA k : k.type # NoType)
    IN IF typed = <<>> THEN NoType ELSE typed[1].type

\* the entries of label in a key list
EntriesOf(keys, label) == {i \in 1..Len(keys) : keys[i].label = label}

\* C11: for an array of types the key candidates are the union of the listed
\* types' properties (less the siblings present), one entry per label, its
\* required flag the OR over the occurrences and its range type that of the
\* first occurrence that has one
C11_ArrayMergeFirstTyped ==
    IsArrayKeys =>
        LET keys == lastStep.result.keys
            declared == Labels(ConcatProperties(query, query.type.arr))
        IN /\ Labels(keys) = declared \ query.properties
           /\ \A label \in Labels(keys) :
                /\ Cardinality(EntriesOf(keys, label)) = 1
                /\ \A i \in EntriesOf(keys, label) :
                     /\ keys[i].required
                          <=> AnyRequired(Occurrences(query, label))
                     /\ keys[i].type
                          = FirstRangeType(Occurrences(query, label))

\* the result of the last step is a value list computed for the key
IsValuesFor(key) ==
    /\ lastStep.op = "completion"
    /\ query.hasJsonInfo
    /\ query.isValue
    /\ query.key = key

\* the elements of a sequence
Range(seq) == {seq[i] : i \in 1..Len(seq)}

\* C12: at a value position of @type the candidates are the declared types of
\* the parent property when it resolves, and the two root kind names otherwise
C12_TypeValueCandidates ==
    IsValuesFor("@type") =>
        LET id == getIdFromShortName(query, query.lastKey)
        IN /\ lastStep.result.kind = "values"
           /\ IF query.lastKey # "" /\ id # NoId
              THEN lastStep.result.values = getTypesFromId(query, id)
              ELSE Range(lastStep.result.values)
                     = {"Interface", "CapabilityModel"}

C14_NoDuplicateLabels ==
    lastStep.result.kind = "keys" =>
        \A label \in Labels(lastStep.result.keys) :
            Cardinality(EntriesOf(lastStep.result.keys, label)) = 1

\* the object has no @type value
NoOwnType(q) ==
    \/ q.type.tag = "undefined"
    \/ q.type.tag = "string" /\ q.type.str = ""
    \/ q.type.tag = "array" /\ q.type.arr = <<>>

\* the parent key resolves to an id of exactly one type, not a root kind
ParentGivesType(q) ==
    LET id == getIdFromShortName(q, q.lastKey)
        types == getTypesFromId(q, id)
    IN /\ id # NoId
       /\ Len(types) = 1
       /\ types[1] \notin {"Interface", "CapabilityModel"}

\* the last step computed key candidates for an object of no resolvable type
IsUnresolvedKeys ==
    /\ lastStep.result.kind = "keys"
    /\ NoOwnType(query)
    /\ ~ParentGivesType(query)

\* the key list is the one entry @type, flagged required
OnlyRequiredType(keys) ==
    /\ Len(keys) = 1
    /\ keys[1].label = "@type"
    /\ keys[1].required

\* C15 as stated: where no type is resolvable the candidate list is exactly
\* the one entry @type, flagged required
C15_UnresolvedOffersType ==
    IsUnresolvedKeys => OnlyRequiredType(lastStep.result.keys)

\* C15 as amended: where no type is resolvable the candidate list is exactly
\* the one entry @type, flagged required, if the object has no @type key yet,
\* and is empty if it has one
C15_UnresolvedOffersTypeOnce ==
    IsUnresolvedKeys =>
        IF "@type" \in query.properties
        THEN lastStep.result.keys = <<>>
        ELSE OnlyRequiredType(lastStep.result.keys)

C15_Witness ==
    /\ IsUnresolvedKeys
    /\ query.lastKey = "contents"
    /\ Len(query.typesOf) = 2
    /\ "@type" \notin query.properties
    /\ OnlyRequiredType(lastStep.result.keys)

\* the last step asked the hover provider
IsHover == lastStep.op = "hover"

\* C16: hover shows a fixed string, whatever the comment lookup returns, for
\* @id, @type, @context and @value; for another identifier it shows that
\* identifier's comment; it shows nothing when identifier or comment is absent
C16_HoverReservedKeysFixed ==
    IsHover =>
        LET id == query.hoverId
            result == lastStep.result
        IN IF id \in {"@id", "@type", "@context", "@value"}
           THEN /\ result.kind = "hover"
                /\ \/ query.comment = ""
                   \/ result.values # <<query.comment>>
           ELSE IF id # NoId /\ query.comment # ""
           THEN result.kind = "hover" /\ result.values = <<query.comment>>
           ELSE result.kind = "null"

\* the ontology context the file name of a recognized document stands for
ContextByName(d) ==
    IF d = InterfaceDoc THEN "Interface" ELSE "CapabilityModel"

\* C17: every validation, whether run by activation, by a timer of an open or
\* an edit, or by an editor switch, and so every diagnostic set, uses the
\* context the document's file name stands for
C17_ContextByFileName ==
    /\ \A u \in lastStep.updates :
         u.doc \in MetaModelDocs /\ u.ctx = ContextByName(u.doc)
    /\ \A d \in Docs :
         diag[d] # NoDiag => d \in MetaModelDocs /\ diag[d].ctx = ContextByName(d)

C17_Witness ==
    /\ lastStep.op = "timer"
    /\ Validated(lastStep, CapabilityModelDoc)
    /\ diag[CapabilityModelDoc].ctx = "CapabilityModel"
    /\ diag[InterfaceDoc].ctx = "Interface"

\* the last step computed key candidates for an object with no type of its
\* own (jsonInfo.type undefined or empty)
IsUntypedKeys ==
    /\ lastStep.result.kind = "keys"
    /\ query.type.tag \in {"undefined", "string"}
    /\ query.type.str = ""

\* the properties of type t that are no siblings yet, in declared order
OpenProperties(q, t) ==
    SelectSeq(getTypedPropertiesFromType(q, t),
              LAMBDA k : k.label \notin q.properties)

\* C18: for an object of no own type the candidates are those of the parent
\* key's type exactly when the parent key resolves to an id that declares one
\* type, not a root kind; in every other case (unknown id, no or several
\* types, a single root kind) the type stays unresolved and only @type, if
\* not yet present, is offered
C18_InferenceFromSingleConcreteType ==
    IsUntypedKeys =>
        IF ParentGivesType(query)
        THEN lastStep.result.keys
               = OpenProperties(query, query.typesOf[1])
        ELSE lastStep.result.keys
               = IF "@type" \in query.properties THEN <<>>
                 ELSE <<Key("@type", TRUE, NoType)>>

C18_Witness ==
    /\ IsUntypedKeys
    /\ ParentGivesType(query)
    /\ query.typesOf = <<"Telemetry">>
    /\ "schema" \in Labels(lastStep.result.keys)
    /\ "@type" \notin Labels(lastStep.result.keys)

\* C19: the handler of an open, edit, editor-switch or close event of a
\* document that is no .interface.json or .capabilitymodel.json file leaves
\* the timer handle, the pending timers and every diagnostic set as they were
\* and validates nothing
C19_UnrecognizedDocumentIgnored ==
    [][IsDocEvent(lastStep') /\ lastStep'.doc \in Docs \ MetaModelDocs
         => /\ waitingForUpdatingDiagnostic' = waitingForUpdatingDiagnostic
            /\ timers' = timers
            /\ diag' = diag
            /\ lastStep'.updates = {}
            /\ lastStep'.deletes = {}]_vars

C19_Witness ==
    /\ lastStep.op = "edit"
    /\ lastStep.doc = OtherDoc
    /\ waitingForUpdatingDiagnostic = PendingTimer
    /\ PendingCount(timers, InterfaceDoc) = 1
    /\ diag[InterfaceDoc] # NoDiag

====
